---------------------------- MODULE Spec2Model ----------------------------
(***************************************************************************)
(* Task distribution and agent lifecycle of wardnb/devteam1.               *)
(*                                                                         *)
(*   Coordinator   src/orchestration/orchestrator.py  (class Orchestrator) *)
(*   Agent runtime src/core/base_agent.py             (class BaseAgent)    *)
(*   Transport     src/communication/message_broker.py (class MessageBroker)*)
(*                                                                         *)
(* The program is a single asyncio event loop.  A coroutine runs without   *)
(* interruption between two suspension points, so every action below is    *)
(* the code of one handler from the place it is resumed to the next place  *)
(* it really suspends (asyncio.sleep, a publish, the executor, a wait).    *)
(* Awaiting a coroutine that contains no suspension of its own             *)
(* (find_agent_with_capability, Queue.put on an unbounded queue,           *)
(* BaseAgent.stop) does not give up the loop.                              *)
(*                                                                         *)
(* Task objects are shared by reference between pending_tasks,             *)
(* completed_tasks, task_queue and the coroutines that hold them, so the   *)
(* model keeps one record per task id (task) and lets the containers hold  *)
(* ids.  Agent objects are instances (inst); the registry (agents) maps an *)
(* agent id to its current instance.                                       *)
(***************************************************************************)
EXTENDS Integers, Sequences, FiniteSets, TLC

(***************************************************************************)
(* Bounds of the model.                                                    *)
(***************************************************************************)
\* number of messages the "orchestrator" channel delivers to the Coordinator
MaxReports == 5
\* number of status_update messages delivered in the agent specification
MaxStatus == 1
\* number of assistance_request messages delivered in the agent specification
MaxAssist == 1
\* number of operations issued against the Transport in its specification
MaxBrokerOps == 4
\* number of registrations and unregistrations by agent processes in the
\* health specification
MaxStoreOps == 2

(***************************************************************************)
(* Values.                                                                 *)
(***************************************************************************)
None == "none"

\* task ids handed to the Coordinator; a report that names an id before it is
\* submitted is a report for an unknown id
Tasks == {"A", "B", "D"}

\* id of the ad-hoc Task built by handle_assistance_request
AssistTask == "assist"

\* result payloads carried by task_completed reports
Results == {"r1", "r2"}

\* AgentState, src/core/base_agent.py:13-18
AgentState == {"idle", "working", "waiting", "error", "offline"}

\* the agents of the pool, in the order spawn_agent created them
AgentOrder == <<"pm-001", "dev-001", "dev-002">>

AgentIds == {AgentOrder[i] : i \in 1..Len(AgentOrder)}

AgentClass ==
    [a \in AgentIds |-> IF a = "pm-001" THEN "ProjectManagerAgent" ELSE "DeveloperAgent"]

\* role and capabilities passed to BaseAgent.__init__ by each agent class
ClassRole ==
    [c \in {"ProjectManagerAgent", "DeveloperAgent", "TesterAgent", "UIDesignerAgent"} |->
        CASE c = "ProjectManagerAgent" -> "project_manager"
          [] c = "DeveloperAgent" -> "developer"
          [] c = "TesterAgent" -> "tester"
          [] c = "UIDesignerAgent" -> "ui_designer"]

ClassCapabilities ==
    [c \in {"ProjectManagerAgent", "DeveloperAgent", "TesterAgent", "UIDesignerAgent"} |->
        CASE c = "ProjectManagerAgent" -> <<"project_management", "architecture">>
          [] c = "DeveloperAgent" -> <<"code_generation", "code_review", "documentation">>
          [] c = "TesterAgent" -> <<"testing", "documentation">>
          [] c = "UIDesignerAgent" -> <<"ui_design", "documentation">>]

Capabilities == {"code_generation", "code_review", "testing", "ui_design",
                 "architecture", "project_management", "documentation", "deployment"}

\* the retry ceiling and the backoff multiplier of attempt_task_recovery
RetryCeiling == 3

BackoffUnit == 5
\* the step of the clock, in the time units of asyncio.sleep
TickUnit == 1

Range(s) == {s[i] : i \in 1..Len(s)}

RECURSIVE Without(_, _)
\* the sequence s with every occurrence of x removed
Without(s, x) ==
    IF s = <<>> THEN <<>>
    ELSE IF Head(s) = x THEN Without(Tail(s), x)
    ELSE <<Head(s)>> \o Without(Tail(s), x)

(***************************************************************************)
(* State.                                                                  *)
(***************************************************************************)
VARIABLES
    running,          \* Orchestrator.running
    agents,           \* Orchestrator.agents: agent id -> index of its instance in inst
    agent_pool,       \* Orchestrator.agent_pool: capability -> list of agent ids
    task,             \* the Task objects, by id
    pending_tasks,    \* Orchestrator.pending_tasks, ids in insertion order
    completed_tasks,  \* Orchestrator.completed_tasks
    task_queue,       \* Orchestrator.task_queue
    metrics,          \* Orchestrator.metrics
    coros,            \* suspended coroutines of the Coordinator's handlers
    qloop,            \* position of the process_task_queue loop
    hloop,            \* position of the monitor_agent_health loop
    inst,             \* the BaseAgent instances
    calls,            \* start_task invocations suspended in execute_task
    published,        \* history: messages handed to publish_message, per task and type
    handled,          \* history: the task_failed reports handled per task, and whether
                      \* every report for the task was a task_failed answering an
                      \* assignment that had no answer yet
    last_call,        \* history: the start_task that finished last, with its reports
    budget,           \* remaining environment inputs
    broker            \* the MessageBroker and its request_response callers

vars == <<running, agents, agent_pool, task, pending_tasks, completed_tasks,
          task_queue, metrics, coros, qloop, hloop, inst, calls, published,
          handled, last_call, budget, broker>>

coordVars == <<running, agents, agent_pool, task, pending_tasks, completed_tasks,
               task_queue, metrics, coros, qloop, hloop, published, handled>>

(***************************************************************************)
(* Construction.                                                           *)
(***************************************************************************)
\* a Task that has not been created yet
NoTask ==
    [status |-> None, deps |-> {}, assignee |-> None, retry |-> 0,
     result |-> None, role |-> None]

\* Task(...): the defaults of the model class, and the fields a caller sets.
\* dependencies is a list in the code; callers are taken to pass it without
\* duplicates, so that list.remove is set difference.
NewTask(st, ds, role) ==
    [status |-> st, deps |-> ds, assignee |-> None, retry |-> 0,
     result |-> None, role |-> role]

\* BaseAgent.__init__; start_pending: spawn_agent has scheduled start();
\* assisted: history, what the agent's last request_assistance returned
NewAgent(id) ==
    [id |-> id, cls |-> AgentClass[id], state |-> "idle", running |-> FALSE,
     current_task |-> None, task_history |-> <<>>, message_queue |-> <<>>,
     loop |-> "unstarted", start_pending |-> TRUE, assisted |-> "unset"]

\* Orchestrator.spawn_agent appends the id to the pool of each capability
InitialPool ==
    [c \in Capabilities |->
        SelectSeq(AgentOrder,
                  LAMBDA a : c \in Range(ClassCapabilities[AgentClass[a]]))]

\* no start_task has finished yet
NoCall ==
    [inst |-> 0, task |-> None, outcome |-> None, reports |-> <<>>, handlers |-> {}]

\* the calls of start_task are not recorded
NotRecorded ==
    [inst |-> 0, task |-> None, outcome |-> None, reports |-> <<"off">>, handlers |-> {}]

\* channels and callbacks of the Transport's specification
Channels == {"agent_dev-001", "agent_orchestrator", "orchestrator", "broadcast"}

\* cb1 is a coroutine function that returns, cb2 one that raises, and
\* route a plain function that returns the Task it has created, as the
\* lambda spawn_agent subscribes does
Callbacks == {"cb1", "cb2", "route"}

Raises(cb) == cb = "cb2"

PlainFunction(cb) == cb = "route"

\* name of the work queue of the Transport's specification
QueueNames == {"work"}

\* tasks handed to the work queue: a dict of JSON values, and one that holds
\* a datetime, as Task.dict() does
QueueTasks == {"plain", "dated"}

\* MessageBroker.__init__ followed by connect(): the durable store is either
\* reachable (redis_client set, pubsub created) or not (redis_client None)
NewBroker(redis) ==
    [redis_client |-> redis,
     subscribers |-> [ch \in Channels |-> <<>>],
     agent_channels |-> [a \in {} |-> None],
     status |-> [a \in {} |-> None],
     routes |-> [a \in AgentIds |-> 0],
     silent |-> {},
     wire |-> <<>>,
     invoked |-> [cb \in Callbacks |-> 0],
     raised |-> {},
     awaited |-> {},
     store |-> [q \in QueueNames |-> <<>>],
     qlog |-> <<>>,
     rr |-> <<>>,
     ops |-> MaxBrokerOps]

\* the Coordinator's broker after spawn_initial_agents: every agent has been
\* registered (its channel, and with the store its status key `online`) and
\* spawn_agent has subscribed one routing callback on its channel
CoordBroker(redis) ==
    [NewBroker(redis) EXCEPT
        !.agent_channels = [a \in AgentIds |-> "agent_" \o a],
        !.status = IF redis THEN [a \in AgentIds |-> "online"] ELSE @,
        !.routes = [a \in AgentIds |-> 1]]

\* monitor_agent_health sleeps between two cycles
Sleeping == [pc |-> "sleeping", agent |-> None, todo |-> <<>>]

\* BaseAgent.start() has run and process_messages waits on the mailbox
StartedAgent(id) ==
    [NewAgent(id) EXCEPT !.running = TRUE, !.loop = "waiting", !.start_pending = FALSE]

InitCommon ==
    /\ running = TRUE
    /\ agents = [a \in AgentIds |-> CHOOSE i \in 1..Len(AgentOrder) : AgentOrder[i] = a]
    /\ agent_pool = InitialPool
    /\ task = [t \in Tasks |-> NoTask]
    /\ pending_tasks = <<>>
    /\ completed_tasks = <<>>
    /\ task_queue = <<>>
    /\ metrics = [tasks_completed |-> 0, tasks_failed |-> 0,
                  agents_spawned |-> Len(AgentOrder)]
    /\ coros = {}
    /\ qloop = "waiting"
    /\ hloop = Sleeping
    /\ calls = {}
    /\ published = [t \in Tasks \cup {AssistTask} |->
                        [task_assignment |-> 0, task_escalation |-> 0,
                         assistance_response |-> 0]]
    /\ handled = [t \in Tasks |-> [task_failed |-> 0, only_answers |-> TRUE]]
    /\ budget = [reports |-> MaxReports, status |-> MaxStatus, assist |-> MaxAssist]

\* the state after Orchestrator.start() once the event loop has run the
\* scheduled start() of every agent: nothing has been submitted yet
Init ==
    /\ InitCommon
    /\ inst = [i \in 1..Len(AgentOrder) |-> StartedAgent(AgentOrder[i])]
    /\ last_call = NotRecorded
    /\ broker = CoordBroker(FALSE)

(***************************************************************************)
(* Coordinator: routing.  The operators take and return the part of the    *)
(* state a handler works on, S = [task, pending, queue, inst, published,   *)
(* suspended]; suspended is set when the handler has reached a publish.    *)
(***************************************************************************)
CoordState ==
    [task |-> task, pending |-> pending_tasks, queue |-> task_queue,
     inst |-> inst, published |-> published, suspended |-> FALSE]

\* Orchestrator.role_to_capability
role_to_capability(role) ==
    CASE role = "developer" -> "code_generation"
      [] role = "tester" -> "testing"
      [] role = "ui_designer" -> "ui_design"
      [] role = "project_manager" -> "project_management"
      [] role = "architect" -> "architecture"
      [] OTHER -> "code_generation"

\* a lookup that forgets the state test: the first agent of the pool that is
\* not excluded
find_first_in_pool(I, capability, exclude) ==
    LET pool == agent_pool[capability]
        hits == {k \in 1..Len(pool) : pool[k] # exclude}
    IN  IF hits = {} THEN None
        ELSE pool[CHOOSE k \in hits : \A j \in hits : k <= j]

\* a lookup that forgets the exclusion: the first agent of the pool whose
\* state is IDLE
find_idle_in_pool(I, capability, exclude) ==
    LET pool == agent_pool[capability]
        hits == {k \in 1..Len(pool) : I[agents[pool[k]]].state = "idle"}
    IN  IF hits = {} THEN None
        ELSE pool[CHOOSE k \in hits : \A j \in hits : k <= j]

\* Orchestrator.find_agent_with_capability: the first agent of the pool that
\* is not excluded and whose state is IDLE
find_agent_with_capability(I, capability, exclude) ==
    LET pool == agent_pool[capability]
        ok(k) == pool[k] # exclude /\ I[agents[pool[k]]].state = "idle"
        hits == {k \in 1..Len(pool) : ok(k)}
    IN  IF hits = {} THEN None
        ELSE pool[CHOOSE k \in hits : \A j \in hits : k <= j]

\* MessageBroker.publish_message of a message for an agent, followed by the
\* delivery on the agent's channel: each routing callback subscribed there
\* runs route_message_to_agent, which puts the message into the mailbox of
\* the instance registered under the receiver's id.  Without the store every
\* callback of the channel is awaited; with it the listener calls the first
\* one and stops at the TypeError of create_task (the callback is a lambda
\* that returns a Task)
publish_to_agent(S, receiver, msg) ==
    [S EXCEPT !.inst[agents[receiver]].message_queue =
                    @ \o [k \in 1..(IF broker.redis_client /\ broker.routes[receiver] > 1
                                     THEN 1 ELSE broker.routes[receiver]) |-> msg],
              !.published[msg.task][msg.type] = @ + 1,
              !.suspended = TRUE]

\* an assignment that marks the task it defers
assign_task_marking_deferred(S, t) ==
    LET agent_id == find_agent_with_capability(
                        S.inst, role_to_capability(S.task[t].role), None)
    IN  IF agent_id # None
        THEN publish_to_agent(
                [S EXCEPT !.task[t].assignee = agent_id,
                          !.task[t].status = "assigned",
                          !.pending = IF t \in Range(@) THEN @ ELSE Append(@, t)],
                agent_id, [type |-> "task_assignment", task |-> t])
        ELSE [S EXCEPT !.queue = Append(@, t), !.task[t].status = "queued"]

\* Orchestrator.assign_task_to_agent
assign_task_to_agent(S, t) ==
    LET agent_id == find_agent_with_capability(
                        S.inst, role_to_capability(S.task[t].role), None)
    IN  IF agent_id # None
        THEN publish_to_agent(
                [S EXCEPT !.task[t].assignee = agent_id,
                          !.task[t].status = "assigned",
                          !.pending = IF t \in Range(@) THEN @ ELSE Append(@, t)],
                agent_id, [type |-> "task_assignment", task |-> t])
        ELSE [S EXCEPT !.queue = Append(@, t)]

\* a release test that forgets the remaining dependencies
release_on_any_dependency(t) ==
    t.status = "blocked"

\* the test of check_for_dependent_tasks, line 306: the task is released when
\* no dependency is left and it was blocked
release_ready(t) ==
    t.deps = {} /\ t.status = "blocked"

RECURSIVE check_for_dependent_tasks(_, _, _)
\* Orchestrator.check_for_dependent_tasks, from the task of the snapshot
\* list(self.pending_tasks.values()) it has reached (todo) up to the publish
\* at which it suspends, or to the end of the snapshot
check_for_dependent_tasks(S, completed_task_id, todo) ==
    IF todo = <<>> THEN [state |-> S, todo |-> <<>>]
    ELSE LET d == Head(todo)
         IN  IF completed_task_id \in S.task[d].deps
             THEN LET S1 == [S EXCEPT !.task[d].deps = @ \ {completed_task_id}]
                  IN  IF release_ready(S1.task[d])
                      THEN LET S2 == assign_task_to_agent(
                                        [S1 EXCEPT !.task[d].status = "pending"], d)
                           IN  IF S2.suspended
                               THEN [state |-> S2, todo |-> Tail(todo)]
                               ELSE check_for_dependent_tasks(S2, completed_task_id, Tail(todo))
                      ELSE check_for_dependent_tasks(S1, completed_task_id, Tail(todo))
             ELSE check_for_dependent_tasks(S, completed_task_id, Tail(todo))

\* the handler's part of the state is written back
Commit(S) ==
    /\ task' = S.task
    /\ pending_tasks' = S.pending
    /\ task_queue' = S.queue
    /\ inst' = S.inst
    /\ published' = S.published

(***************************************************************************)
(* Coordinator: submission.                                                *)
(***************************************************************************)
\* a caller creates a Task and submits it: assign_task_to_agent(task).  The
\* Task is created `pending` or `blocked`, with or without dependencies.
SubmitTask(t, st, ds) ==
    /\ task[t].status = None
    /\ LET S0 == CoordState
           S == assign_task_to_agent(
                    [S0 EXCEPT !.task[t] = NewTask(st, ds, "developer")], t)
       IN  Commit(S)
    /\ UNCHANGED <<running, agents, agent_pool, completed_tasks, metrics, coros,
                   qloop, hloop, calls, handled, last_call, budget, broker>>

\* a caller creates a Task with unmet dependencies and holds it in the
\* pending set as `blocked` (spec 4.3); no code of the repository does this,
\* pending_tasks is written by the caller
HoldBlockedTask(t, ds) ==
    /\ task[t].status = None
    /\ ds # {}
    /\ task' = [task EXCEPT ![t] = NewTask("blocked", ds, "developer")]
    /\ pending_tasks' = Append(pending_tasks, t)
    /\ UNCHANGED <<running, agents, agent_pool, completed_tasks, task_queue,
                   metrics, coros, qloop, hloop, inst, calls, published, handled,
                   last_call, budget, broker>>

(***************************************************************************)
(* Coordinator: reports.  handle_orchestrator_message is subscribed on the *)
(* channel "orchestrator"; each message delivered there starts one run of  *)
(* it (start_listening creates a task per callback).  Which messages       *)
(* arrive is up to the publishers: the handlers take any task id.          *)
(***************************************************************************)
\* a handler that counts every report, accepted or not
accept_completion_counting_reports(S, M, task_id, result) ==
    IF task_id \in Range(S.pending)
    THEN [state |-> [S EXCEPT !.task[task_id].status = "completed",
                              !.task[task_id].result = result,
                              !.pending = Without(@, task_id)],
          completed |-> Append(completed_tasks, task_id),
          metrics |-> [M EXCEPT !.tasks_completed = @ + 1]]
    ELSE [state |-> S, completed |-> completed_tasks,
          metrics |-> [M EXCEPT !.tasks_completed = @ + 1]]

\* Orchestrator.handle_task_completed: the guarded move to the completed set
accept_completion(S, M, task_id, result) ==
    IF task_id \in Range(S.pending)
    THEN [state |-> [S EXCEPT !.task[task_id].status = "completed",
                              !.task[task_id].result = result,
                              !.pending = Without(@, task_id)],
          completed |-> Append(completed_tasks, task_id),
          metrics |-> [M EXCEPT !.tasks_completed = @ + 1]]
    ELSE [state |-> S, completed |-> completed_tasks, metrics |-> M]

\* Orchestrator.handle_task_completed
handle_task_completed(task_id, result) ==
    /\ budget.reports > 0
    /\ budget' = [budget EXCEPT !.reports = @ - 1]
    /\ handled' = [handled EXCEPT ![task_id].only_answers = FALSE]
    /\ LET acc == accept_completion(CoordState, metrics, task_id, result)
           chk == check_for_dependent_tasks(acc.state, task_id, acc.state.pending)
       IN  /\ Commit(chk.state)
           /\ completed_tasks' = acc.completed
           /\ metrics' = acc.metrics
           /\ coros' = IF chk.todo = <<>> THEN coros
                       ELSE coros \cup {[kind |-> "deps", task |-> task_id,
                                         todo |-> chk.todo, delay |-> 0,
                                         elapsed |-> 0, attempt |-> 0,
                                         n |-> budget.reports]}
    /\ UNCHANGED <<running, agents, agent_pool, qloop, hloop, calls, last_call, broker>>

\* check_for_dependent_tasks resumed after the publish of an assignment
resume_check_for_dependent_tasks(c) ==
    /\ c \in coros
    /\ c.kind = "deps"
    /\ LET chk == check_for_dependent_tasks(CoordState, c.task, c.todo)
       IN  /\ Commit(chk.state)
           /\ coros' = IF chk.todo = <<>> THEN coros \ {c}
                       ELSE (coros \ {c}) \cup {[c EXCEPT !.todo = chk.todo]}
    /\ UNCHANGED <<running, agents, agent_pool, completed_tasks, metrics, qloop, hloop,
                   calls, handled, last_call, budget, broker>>

\* Orchestrator.escalate_failed_task: the escalation goes to the first
\* registered agent whose role contains "project_manager", if there is one
escalate_failed_task(S, t) ==
    LET pm_agents == SelectSeq(AgentOrder,
                        LAMBDA a : a \in DOMAIN agents
                                   /\ ClassRole[S.inst[agents[a]].cls] = "project_manager")
    IN  IF pm_agents # <<>>
        THEN publish_to_agent(S, pm_agents[1], [type |-> "task_escalation", task |-> t])
        ELSE S

\* a recovery whose test lets the counter pass the ceiling
attempt_task_recovery_inclusive(S, t) ==
    IF S.task[t].retry <= RetryCeiling
    THEN [state |-> [S EXCEPT !.task[t].retry = @ + 1, !.task[t].status = "pending"],
          sleep |-> BackoffUnit * (S.task[t].retry + 1)]
    ELSE [state |-> escalate_failed_task(S, t), sleep |-> 0]

\* Orchestrator.attempt_task_recovery up to its suspension: the retry counter
\* and the status are written before asyncio.sleep(5 * retry); past the
\* ceiling the task is escalated
attempt_task_recovery(S, t) ==
    IF S.task[t].retry < RetryCeiling
    THEN [state |-> [S EXCEPT !.task[t].retry = @ + 1, !.task[t].status = "pending"],
          sleep |-> BackoffUnit * (S.task[t].retry + 1)]
    ELSE [state |-> escalate_failed_task(S, t), sleep |-> 0]

\* Orchestrator.handle_task_failed
handle_task_failed(task_id) ==
    /\ budget.reports > 0
    /\ budget' = [budget EXCEPT !.reports = @ - 1]
    /\ handled' = [handled EXCEPT
                        ![task_id].task_failed = @ + 1,
                        ![task_id].only_answers =
                            @ /\ handled[task_id].task_failed
                                    < published[task_id].task_assignment]
    /\ IF task_id \in Range(pending_tasks)
       THEN LET S0 == CoordState
                rec == attempt_task_recovery(
                          [S0 EXCEPT !.task[task_id].status = "failed"], task_id)
            IN  /\ Commit(rec.state)
                /\ metrics' = [metrics EXCEPT !.tasks_failed = @ + 1]
                /\ coros' = IF rec.sleep = 0 THEN coros
                            ELSE coros \cup {[kind |-> "backoff", task |-> task_id,
                                              todo |-> <<>>, delay |-> rec.sleep,
                                              elapsed |-> 0,
                                              attempt |-> rec.state.task[task_id].retry,
                                              n |-> budget.reports]}
       ELSE UNCHANGED <<task, pending_tasks, task_queue, inst, published,
                        metrics, coros>>
    /\ UNCHANGED <<running, agents, agent_pool, completed_tasks, qloop, hloop, calls,
                   last_call, broker>>

\* attempt_task_recovery resumed when its backoff delay has elapsed
resume_attempt_task_recovery(c) ==
    /\ c \in coros
    /\ c.kind = "backoff"
    /\ Commit(assign_task_to_agent(CoordState, c.task))
    /\ coros' = coros \ {c}
    /\ UNCHANGED <<running, agents, agent_pool, completed_tasks, metrics, qloop, hloop,
                   calls, handled, last_call, budget, broker>>

\* time passes while attempt_task_recovery is in asyncio.sleep: every
\* unfinished delay has TickUnit more of it behind it
asyncio_sleep_elapse ==
    /\ \E c \in coros : c.kind = "backoff" /\ c.elapsed < c.delay
    /\ coros' = {IF c.kind = "backoff" /\ c.elapsed < c.delay
                 THEN [c EXCEPT !.elapsed = @ + TickUnit]
                 ELSE c : c \in coros}
    /\ UNCHANGED <<task, pending_tasks, task_queue, inst, published, running, agents,
                   agent_pool, completed_tasks, metrics, qloop, hloop, calls, handled,
                   last_call, budget, broker>>

\* asyncio.sleep returns once its delay has elapsed, and attempt_task_recovery
\* goes on to assign_task_to_agent
wake_attempt_task_recovery(c) ==
    /\ c \in coros
    /\ c.elapsed >= c.delay
    /\ resume_attempt_task_recovery(c)

\* Orchestrator.process_task_queue: one turn of the loop that has an item.
\* The loop tests self.running only before it waits again.
process_task_queue ==
    /\ qloop = "waiting"
    /\ task_queue # <<>>
    /\ LET S0 == CoordState
       IN  Commit(assign_task_to_agent(
                    [S0 EXCEPT !.queue = Tail(@)], Head(task_queue)))
    /\ qloop' = IF running THEN "waiting" ELSE "exited"
    /\ UNCHANGED <<hloop, running, agents, agent_pool, completed_tasks, metrics, coros,
                   calls, handled, last_call, budget, broker>>

\* Orchestrator.process_task_queue: the wait for an item times out and the
\* loop test fails
process_task_queue_exit ==
    /\ qloop = "waiting"
    /\ task_queue = <<>>
    /\ ~running
    /\ qloop' = "exited"
    /\ UNCHANGED <<hloop, running, agents, agent_pool, task, pending_tasks,
                   completed_tasks, task_queue, metrics, coros, inst, calls,
                   published, handled, last_call, budget, broker>>

(***************************************************************************)
(* Agent runtime.                                                          *)
(***************************************************************************)
\* what broadcast_message does with a report: it hands it over ("sent"), it
\* raises before the message has left ("fault"), or it raises after
\* (publish_message publishes and then stores, "late_fault").  The method of
\* the base class only logs; run_agent replaces it by publish_message.
SendOutcomes == {"sent", "fault", "late_fault"}

delivered(s) == s \in {"sent", "late_fault"}

raises(s) == s \in {"fault", "late_fault"}

\* BaseAgent.broadcast_message, the method send_message hands every message
\* of an agent to: it writes a log line.  The result is the set of handlers
\* the message is passed to; an agent spawned by the Coordinator has no
\* reference to the Transport, and nothing is published.
broadcast_message(message) == {}

\* the correlation_id of the assistance_request send_message builds for
\* request_assistance: the field is left at its default
RequestCorrelationId == None

\* BaseAgent.start_task up to the executor: lines 171-182
start_task_begin(I, i, t) ==
    [I EXCEPT ![i].current_task = t, ![i].state = "working"]

\* BaseAgent.start_task, the try and except blocks once execute_task has
\* returned or raised: the reports that left the agent, and whether an
\* exception leaves start_task
report_outcome(outcome, s1, s2) ==
    IF outcome = "returned"
    THEN IF ~raises(s1)
         THEN [reports |-> <<"task_completed">>, escapes |-> FALSE]
         ELSE [reports |-> (IF delivered(s1) THEN <<"task_completed">> ELSE <<>>)
                           \o (IF delivered(s2) THEN <<"task_failed">> ELSE <<>>),
               escapes |-> raises(s2)]
    ELSE [reports |-> IF delivered(s1) THEN <<"task_failed">> ELSE <<>>,
          escapes |-> raises(s1)]

\* the cleanup written after the try statement instead of in its finally
\* block: it is skipped when an exception leaves the except block
start_task_cleanup_after_try(I, i, t, escapes) ==
    IF escapes THEN I
    ELSE [I EXCEPT ![i].task_history = Append(@, t),
                   ![i].current_task = None,
                   ![i].state = "idle"]

\* BaseAgent.start_task, the finally block: it runs whether or not an
\* exception leaves the call
start_task_finally(I, i, t, escapes) ==
    [I EXCEPT ![i].task_history = Append(@, t),
              ![i].current_task = None,
              ![i].state = "idle"]

\* what handle_message of the agent's class does with a message type
StartsTask(cls, type) ==
    type = "task_assignment" /\ cls # "ProjectManagerAgent"

\* BaseAgent.process_messages: one message is taken from the mailbox and
\* given to handle_message; a task_assignment starts the task, which then
\* waits in execute_task
process_messages(i) ==
    /\ inst[i].loop = "waiting"
    /\ inst[i].message_queue # <<>>
    /\ LET msg == Head(inst[i].message_queue)
           I1 == [inst EXCEPT ![i].message_queue = Tail(@)]
       IN  IF StartsTask(inst[i].cls, msg.type)
           THEN /\ inst' = [start_task_begin(I1, i, msg.task) EXCEPT ![i].loop = "handling"]
                /\ calls' = calls \cup {[inst |-> i, task |-> msg.task, via |-> "mailbox",
                                         requester |-> None, respond |-> FALSE,
                                         n |-> 0]}
           ELSE /\ inst' = [I1 EXCEPT ![i].loop =
                                IF inst[i].running THEN "waiting" ELSE "exited"]
                /\ calls' = calls
    /\ UNCHANGED <<coordVars, last_call, budget, broker>>

\* execute_task returns or raises and start_task runs to its end; a call
\* made by process_messages gives the loop back (an escaping exception is
\* logged there); a call made by handle_assistance_request lets that handler
\* go on to its response
finish_start_task(c, outcome, s1, s2) ==
    /\ c \in calls
    /\ calls' = calls \ {c}
    /\ LET rep == report_outcome(outcome, s1, s2)
           I1 == start_task_finally(inst, c.inst, c.task, rep.escapes)
           I2 == IF c.via = "mailbox"
                 THEN [I1 EXCEPT ![c.inst].loop =
                           IF inst[c.inst].running THEN "waiting" ELSE "exited"]
                 ELSE I1
           S0 == CoordState
           S == IF c.via = "direct" /\ c.respond /\ ~rep.escapes
                THEN publish_to_agent([S0 EXCEPT !.inst = I2], c.requester,
                        [type |-> "assistance_response", task |-> c.task,
                         status |-> "success",
                         helper_agent |-> inst[c.inst].id,
                         correlation_id |-> RequestCorrelationId])
                ELSE [S0 EXCEPT !.inst = I2]
       IN  /\ inst' = S.inst
           /\ published' = S.published
           /\ last_call' = IF last_call = NotRecorded THEN last_call
                            ELSE [inst |-> c.inst, task |-> c.task,
                                  outcome |-> outcome, reports |-> rep.reports,
                                  handlers |-> UNION {broadcast_message(m) :
                                                        m \in Range(rep.reports)}]
    /\ UNCHANGED <<running, agents, agent_pool, task, pending_tasks,
                   completed_tasks, task_queue, metrics, coros, qloop, hloop, handled,
                   budget, broker>>

\* BaseAgent.start: scheduled by spawn_agent, it runs some time later
start(i) ==
    /\ inst[i].start_pending
    /\ inst' = [inst EXCEPT ![i].running = TRUE,
                            ![i].state = "idle",
                            ![i].loop = "created",
                            ![i].start_pending = FALSE]
    /\ UNCHANGED <<coordVars, calls, last_call, budget, broker>>

\* BaseAgent.process_messages reaches its loop test for the first time
process_messages_enter(i) ==
    /\ inst[i].loop = "created"
    /\ inst' = [inst EXCEPT ![i].loop = IF inst[i].running THEN "waiting" ELSE "exited"]
    /\ UNCHANGED <<coordVars, calls, last_call, budget, broker>>

\* BaseAgent.process_messages: the wait for a message times out and the loop
\* test fails
process_messages_exit(i) ==
    /\ inst[i].loop = "waiting"
    /\ inst[i].message_queue = <<>>
    /\ ~inst[i].running
    /\ inst' = [inst EXCEPT ![i].loop = "exited"]
    /\ UNCHANGED <<coordVars, calls, last_call, budget, broker>>

\* the correlation_id of a message: None unless the sender has set it
correlation_id(message) ==
    IF "correlation_id" \in DOMAIN message THEN message.correlation_id ELSE None

\* the correlation id wait_for_response is called with: the id of the
\* request send_message has just built
RequestId == "request"

\* BaseAgent.wait_for_response, one turn of its loop with a message in the
\* mailbox: the message is returned if it carries the correlation id, else
\* it is put back, at the end of the mailbox
wait_for_response_turn(queue, id) ==
    IF correlation_id(Head(queue)) = id
    THEN [queue |-> Tail(queue), response |-> Head(queue)]
    ELSE [queue |-> Append(Tail(queue), Head(queue)), response |-> None]

\* an agent that execute_task has sent into request_assistance polls its
\* mailbox in wait_for_response; after the timeout the call returns None and
\* execute_task goes on
wait_for_response(c) ==
    /\ c \in calls
    /\ inst[c.inst].message_queue # <<>>
    /\ LET r == wait_for_response_turn(inst[c.inst].message_queue, RequestId)
       IN  inst' = [inst EXCEPT ![c.inst].message_queue = r.queue]
    /\ UNCHANGED <<coordVars, calls, last_call, budget, broker>>

\* BaseAgent.wait_for_response from its call to its return: the loop goes
\* round the mailbox until a message carries the correlation id, which is
\* taken out and returned, or until the timeout, which returns None
wait_for_response_result(queue, id) ==
    LET hits == {k \in 1..Len(queue) : correlation_id(queue[k]) = id}
    IN  IF hits = {} THEN None
        ELSE queue[CHOOSE k \in hits : \A m \in hits : k <= m]

\* BaseAgent.request_assistance, lines 243-245: the value made of what
\* send_message returned
request_assistance_value(response) ==
    IF response # None /\ "status" \in DOMAIN response /\ response.status = "success"
    THEN IF "result" \in DOMAIN response THEN response.result ELSE None
    ELSE None

\* BaseAgent.request_assistance called by execute_task returns: the wait
\* for the response has ended by a matching message or by the timeout
request_assistance_return(c) ==
    /\ c \in calls
    /\ LET queue == inst[c.inst].message_queue
           response == wait_for_response_result(queue, RequestId)
       IN  inst' = [inst EXCEPT
                        ![c.inst].assisted = request_assistance_value(response),
                        ![c.inst].message_queue =
                            IF response = None THEN queue
                            ELSE SelectSeq(queue, LAMBDA m : m # response)]
    /\ UNCHANGED <<coordVars, calls, last_call, budget, broker>>

\* BaseAgent.stop
stop(I, i) ==
    [I EXCEPT ![i].running = FALSE, ![i].state = "offline"]

RECURSIVE stop_all(_, _)
\* the loop of Orchestrator.stop over self.agents.values()
stop_all(I, ids) ==
    IF ids = {} THEN I
    ELSE LET a == CHOOSE x \in ids : TRUE
         IN  stop_all(stop(I, agents[a]), ids \ {a})

\* Orchestrator.stop: running is cleared, every registered agent is stopped,
\* then the Transport stops listening and disconnects
orchestrator_stop ==
    /\ running
    /\ running' = FALSE
    /\ inst' = stop_all(inst, DOMAIN agents)
    /\ UNCHANGED <<agents, agent_pool, task, pending_tasks, completed_tasks,
                   task_queue, metrics, coros, qloop, hloop, calls, published, handled,
                   last_call, budget, broker>>

\* Orchestrator.handle_status_update
handle_status_update(agent_id, state) ==
    /\ budget.status > 0
    /\ budget' = [budget EXCEPT !.status = @ - 1]
    /\ IF agent_id \in DOMAIN agents
       THEN inst' = [inst EXCEPT ![agents[agent_id]].state = state]
       ELSE inst' = inst
    /\ UNCHANGED <<coordVars, calls, last_call, broker>>

\* Orchestrator.handle_assistance_request up to the executor of the helper:
\* the ad-hoc Task is started on the helper directly.  Without a helper the
\* handler recruits only if the configuration enables it (taken as disabled).
handle_assistance_request(requesting_agent, capability_needed, requires_response) ==
    /\ budget.assist > 0
    /\ budget' = [budget EXCEPT !.assist = @ - 1]
    /\ LET helper_agent == find_agent_with_capability(
                               inst, capability_needed, requesting_agent)
       IN  IF helper_agent # None
           THEN /\ inst' = start_task_begin(inst, agents[helper_agent], AssistTask)
                /\ calls' = calls \cup {[inst |-> agents[helper_agent],
                                         task |-> AssistTask, via |-> "direct",
                                         requester |-> requesting_agent,
                                         respond |-> requires_response,
                                         n |-> budget.assist]}
           ELSE UNCHANGED <<inst, calls>>
    /\ UNCHANGED <<coordVars, last_call, broker>>

\* Orchestrator.route_message_to_agent: the message is put into the mailbox
\* of the instance registered under agent_id, whoever sent it
route_message_to_agent(I, agent_id, msg) ==
    IF agent_id \in DOMAIN agents
    THEN [I EXCEPT ![agents[agent_id]].message_queue = Append(@, msg)]
    ELSE I

RECURSIVE route_to_each(_, _, _, _)
\* the routing callbacks subscribe_agent has subscribed on "broadcast", one
\* for each spawn_agent of an agent id (n counts those of Head(ids) still to
\* be called): each is awaited
route_to_each(I, ids, n, msg) ==
    IF ids = <<>> THEN I
    ELSE IF n = 0
         THEN route_to_each(I, Tail(ids),
                            IF Len(ids) > 1 THEN broker.routes[ids[2]] ELSE 0, msg)
         ELSE route_to_each(route_message_to_agent(I, Head(ids), msg), ids, n - 1, msg)

\* Orchestrator.handle_broadcast_message: the message is put into the
\* mailbox of every registered agent but its sender
handle_broadcast_message(I, sender_id, msg) ==
    [i \in DOMAIN I |->
        IF \E a \in DOMAIN agents : agents[a] = i /\ a # sender_id
        THEN [I[i] EXCEPT !.message_queue = Append(@, msg)]
        ELSE I[i]]

\* a message without receiver
BroadcastMessage == [type |-> "event", task |-> None]

\* MessageBroker.publish_message of a message without receiver on the
\* Coordinator's broker, and the delivery on the channel "broadcast".  Its
\* subscribers are the routing callbacks of the agents and then
\* handle_broadcast_message.  Without the store all of them are awaited in
\* turn; with it the listener calls the first routing callback and stops at
\* the TypeError of create_task.
publish_broadcast(sender_id) ==
    /\ broker.ops > 0
    /\ broker' = [broker EXCEPT !.ops = @ - 1]
    /\ inst' = IF broker.redis_client
               THEN route_message_to_agent(inst, AgentOrder[1], BroadcastMessage)
               ELSE handle_broadcast_message(
                        route_to_each(inst, AgentOrder, broker.routes[AgentOrder[1]],
                                      BroadcastMessage),
                        sender_id, BroadcastMessage)
    /\ UNCHANGED <<coordVars, calls, last_call, budget>>

(***************************************************************************)
(* Coordinator: health monitoring.  The operators take and return          *)
(* H = [inst, agents, pool, broker, metrics].                              *)
(***************************************************************************)
\* MessageBroker.get_online_agents: with the store the ids whose status key
\* is `online`, without it the ids that have a channel
get_online_agents(B) ==
    IF B.redis_client
    THEN {a \in DOMAIN B.status : B.status[a] = "online"}
    ELSE DOMAIN B.agent_channels

\* a first loop whose test is a disjunction: every agent that is absent or
\* not yet OFFLINE is marked
mark_absent_or_not_offline(I, R, online) ==
    [i \in DOMAIN I |->
        IF \E a \in DOMAIN R : R[a] = i /\ (a \notin online \/ I[i].state # "offline")
        THEN [I[i] EXCEPT !.state = "offline"]
        ELSE I[i]]

\* monitor_agent_health, the first loop: a registered agent that is not in
\* the online set and not OFFLINE is set OFFLINE
mark_absent_offline(I, R, online) ==
    [i \in DOMAIN I |->
        IF \E a \in DOMAIN R : R[a] = i /\ a \notin online /\ I[i].state # "offline"
        THEN [I[i] EXCEPT !.state = "offline"]
        ELSE I[i]]

\* a restart that does not stop the instance it replaces
restart_agent_unstopped(H, agent_id) ==
    LET i == H.agents[agent_id]
        fresh == [NewAgent(agent_id) EXCEPT !.cls = H.inst[i].cls,
                                            !.start_pending = FALSE]
        caps == Range(ClassCapabilities[H.inst[i].cls])
    IN  [H EXCEPT !.inst = Append(H.inst, fresh),
                  !.agents[agent_id] = Len(H.inst) + 1,
                  !.pool = [c \in DOMAIN @ |->
                                IF c \in caps THEN Append(@[c], agent_id) ELSE @[c]]]

\* Orchestrator.restart_agent and spawn_agent up to register_agent: the old
\* instance is stopped and removed from the registry, an instance of the
\* same class is created under the same id and entered into the registry and
\* into the pool of each of its capabilities
restart_agent(H, agent_id) ==
    LET i == H.agents[agent_id]
        fresh == [NewAgent(agent_id) EXCEPT !.cls = H.inst[i].cls,
                                            !.start_pending = FALSE]
        caps == Range(ClassCapabilities[H.inst[i].cls])
    IN  [H EXCEPT !.inst = Append(stop(H.inst, i), fresh),
                  !.agents[agent_id] = Len(H.inst) + 1,
                  !.pool = [c \in DOMAIN @ |->
                                IF c \in caps THEN Append(@[c], agent_id) ELSE @[c]]]

\* Orchestrator.spawn_agent from register_agent on: the id is registered,
\* one more routing callback is subscribed on its channel, and start() of
\* the new instance is scheduled
spawn_agent_registered(H, agent_id) ==
    [H EXCEPT !.broker.agent_channels =
                    [a \in DOMAIN @ \cup {agent_id} |->
                        IF a = agent_id THEN "agent_" \o agent_id ELSE @[a]],
              !.broker.status =
                    IF H.broker.redis_client
                    THEN [a \in DOMAIN @ \cup {agent_id} |->
                            IF a = agent_id THEN "online" ELSE @[a]]
                    ELSE @,
              !.broker.routes[agent_id] = @ + 1,
              !.inst[H.agents[agent_id]].start_pending = TRUE,
              !.metrics.agents_spawned = @ + 1]

RECURSIVE restart_failed_agents(_, _)
\* monitor_agent_health, the second loop over list(self.agents.keys()): an
\* agent whose state is ERROR is restarted.  With the store register_agent
\* waits for it and the loop is suspended there; without it the restart runs
\* through.
restart_failed_agents(H, todo) ==
    IF todo = <<>> THEN [state |-> H, agent |-> None, todo |-> <<>>]
    ELSE LET a == Head(todo)
         IN  IF a \in DOMAIN H.agents /\ H.inst[H.agents[a]].state = "error"
             THEN IF H.broker.redis_client
                  THEN [state |-> restart_agent(H, a), agent |-> a, todo |-> Tail(todo)]
                  ELSE restart_failed_agents(
                            spawn_agent_registered(restart_agent(H, a), a), Tail(todo))
             ELSE restart_failed_agents(H, Tail(todo))

\* the monitor's part of the state is written back; the loop test is made
\* when the second loop has ended
CommitHealth(r) ==
    /\ inst' = r.state.inst
    /\ agents' = r.state.agents
    /\ agent_pool' = r.state.pool
    /\ broker' = r.state.broker
    /\ metrics' = r.state.metrics
    /\ hloop' = IF r.agent # None
                THEN [pc |-> "spawning", agent |-> r.agent, todo |-> r.todo]
                ELSE IF running THEN Sleeping
                     ELSE [pc |-> "exited", agent |-> None, todo |-> <<>>]
    /\ UNCHANGED <<running, task, pending_tasks, completed_tasks, task_queue,
                   coros, qloop, calls, published, handled, last_call, budget>>

\* Orchestrator.monitor_agent_health: one cycle, from the end of its sleep
monitor_agent_health ==
    /\ hloop.pc = "sleeping"
    /\ LET online_agents == get_online_agents(broker)
           H == [inst |-> mark_absent_offline(inst, agents, online_agents),
                 agents |-> agents, pool |-> agent_pool, broker |-> broker,
                 metrics |-> metrics]
       IN  CommitHealth(restart_failed_agents(H, AgentOrder))

\* Orchestrator.monitor_agent_health resumed in spawn_agent once the store
\* has answered
monitor_agent_health_resume ==
    /\ hloop.pc = "spawning"
    /\ LET H == [inst |-> inst, agents |-> agents, pool |-> agent_pool,
                 broker |-> broker, metrics |-> metrics]
       IN  CommitHealth(restart_failed_agents(
                            spawn_agent_registered(H, hloop.agent), hloop.todo))

\* ids of recruited agents, in the order of their creation (the code builds
\* them from the class name and a random number)
RecruitIds == <<"recruit-1", "recruit-2", "recruit-3">>

\* recruit_agent_for_capability, agent_class_map with its default
agent_class_map(capability) ==
    CASE capability = "code_generation" -> "DeveloperAgent"
      [] capability = "testing" -> "TesterAgent"
      [] capability = "ui_design" -> "UIDesignerAgent"
      [] capability = "project_management" -> "ProjectManagerAgent"
      [] OTHER -> "DeveloperAgent"

\* Orchestrator.spawn_agent of a new id, without the store (nothing waits):
\* the instance is created, entered into the registry and the pools,
\* registered, subscribed and its start() scheduled
spawn_agent(H, agent_class, agent_id) ==
    LET fresh == [NewAgent(AgentOrder[1]) EXCEPT !.id = agent_id, !.cls = agent_class]
        caps == Range(ClassCapabilities[agent_class])
        H1 == [H EXCEPT
                !.inst = Append(@, fresh),
                !.agents = [a \in DOMAIN @ \cup {agent_id} |->
                                IF a = agent_id THEN Len(H.inst) + 1 ELSE @[a]],
                !.pool = [c \in DOMAIN @ |->
                                IF c \in caps THEN Append(@[c], agent_id) ELSE @[c]],
                !.broker.routes = [a \in DOMAIN @ \cup {agent_id} |->
                                IF a = agent_id THEN 0 ELSE @[a]]]
    IN  spawn_agent_registered(H1, agent_id)

\* Orchestrator.notify_pm_of_new_agent: team_member_joined is published to
\* the first registered agent whose role is project_manager
notify_pm_of_new_agent(H, agent_id) ==
    LET pm_agents == SelectSeq(AgentOrder \o RecruitIds,
                        LAMBDA a : a \in DOMAIN H.agents /\ a # agent_id
                            /\ ClassRole[H.inst[H.agents[a]].cls] = "project_manager")
    IN  IF pm_agents = <<>> THEN H
        ELSE [H EXCEPT !.inst[H.agents[pm_agents[1]]].message_queue =
                            @ \o [k \in 1..H.broker.routes[pm_agents[1]] |->
                                    [type |-> "team_member_joined", task |-> None]]]

\* Orchestrator.recruit_agent_for_capability
recruit_agent_for_capability(H, capability, agent_id) ==
    notify_pm_of_new_agent(spawn_agent(H, agent_class_map(capability), agent_id),
                           agent_id)

\* Orchestrator.handle_assistance_request under a configuration whose
\* recruitment.auto_recruit is true: with a helper as above, without one the
\* handler recruits an agent and ends
handle_assistance_request_auto_recruit(requesting_agent, capability_needed, requires_response) ==
    /\ budget.assist > 0
    /\ budget' = [budget EXCEPT !.assist = @ - 1]
    /\ Cardinality(DOMAIN agents \ AgentIds) < Len(RecruitIds)
    /\ LET helper_agent == find_agent_with_capability(
                               inst, capability_needed, requesting_agent)
           H == [inst |-> inst, agents |-> agents, pool |-> agent_pool,
                 broker |-> broker, metrics |-> metrics]
           r == recruit_agent_for_capability(H, capability_needed,
                    RecruitIds[Cardinality(DOMAIN agents \ AgentIds) + 1])
       IN  IF helper_agent # None
           THEN /\ inst' = start_task_begin(inst, agents[helper_agent], AssistTask)
                /\ calls' = calls \cup {[inst |-> agents[helper_agent],
                                         task |-> AssistTask, via |-> "direct",
                                         requester |-> requesting_agent,
                                         respond |-> requires_response,
                                         n |-> budget.assist]}
                /\ UNCHANGED <<agents, agent_pool, broker, metrics>>
           ELSE /\ inst' = r.inst
                /\ agents' = r.agents
                /\ agent_pool' = r.pool
                /\ broker' = r.broker
                /\ metrics' = r.metrics
                /\ calls' = calls
    /\ UNCHANGED <<running, task, pending_tasks, completed_tasks, task_queue,
                   coros, qloop, hloop, published, handled, last_call>>

\* the process that runs an agent ends without unregistering it, or its
\* heartbeat task ends: it sends no status_update any more and writes
\* nothing to the store, whose status keys do not expire
agent_goes_silent(agent_id) ==
    /\ agent_id \notin broker.silent
    /\ broker' = [broker EXCEPT !.silent = @ \cup {agent_id}]
    /\ UNCHANGED <<coordVars, inst, calls, last_call, budget>>

(***************************************************************************)
(* Transport.                                                              *)
(***************************************************************************)
BrokerUnchanged ==
    UNCHANGED <<coordVars, inst, calls, last_call, budget>>

\* MessageBroker.register_agent
register_agent(agent_id, channel) ==
    /\ broker.ops > 0
    /\ broker' = [broker EXCEPT
                    !.ops = @ - 1,
                    !.agent_channels =
                        [a \in DOMAIN @ \cup {agent_id} |->
                            IF a = agent_id THEN channel ELSE @[a]],
                    !.status =
                        IF broker.redis_client
                        THEN [a \in DOMAIN @ \cup {agent_id} |->
                                IF a = agent_id THEN "online" ELSE @[a]]
                        ELSE @]
    /\ BrokerUnchanged

\* MessageBroker.unregister_agent
unregister_agent(agent_id) ==
    /\ broker.ops > 0
    /\ broker' = [broker EXCEPT
                    !.ops = @ - 1,
                    !.agent_channels = [a \in DOMAIN @ \ {agent_id} |-> @[a]],
                    !.status =
                        IF broker.redis_client
                        THEN [a \in DOMAIN @ \cup {agent_id} |->
                                IF a = agent_id THEN "offline" ELSE @[a]]
                        ELSE @]
    /\ BrokerUnchanged

\* MessageBroker.subscribe_to_channel: both branches append the callback
subscribe_to_channel(channel, callback) ==
    /\ broker.ops > 0
    /\ broker' = [broker EXCEPT !.ops = @ - 1,
                                !.subscribers[channel] = Append(@, callback)]
    /\ BrokerUnchanged

\* the channel publish_message chooses for a receiver
channel_of(B, receiver_id) ==
    IF receiver_id = None THEN "broadcast"
    ELSE IF receiver_id \in DOMAIN B.agent_channels
         THEN B.agent_channels[receiver_id]
         ELSE "agent_" \o receiver_id

RECURSIVE await_each(_, _)
\* _publish_to_channel without the store: the callbacks of the channel are
\* called and awaited in subscription order; an exception of a callback
\* leaves the loop and the method
await_each(count, cbs) ==
    IF cbs = <<>> THEN [invoked |-> count, raised |-> FALSE]
    ELSE LET c1 == [count EXCEPT ![Head(cbs)] = @ + 1]
         IN  IF Raises(Head(cbs)) THEN [invoked |-> c1, raised |-> TRUE]
             ELSE await_each(c1, Tail(cbs))

RECURSIVE create_task_each(_, _)
\* start_listening, the loop over the callbacks of the channel:
\* asyncio.create_task(callback(data)).  A coroutine function is scheduled
\* and what it raises stays in its task; a plain function runs at once, and
\* create_task of what it returned raises TypeError, which ends the loop
\* (the except clause of the listener logs it)
create_task_each(count, cbs) ==
    IF cbs = <<>> THEN count
    ELSE LET c1 == [count EXCEPT ![Head(cbs)] = @ + 1]
         IN  IF PlainFunction(Head(cbs)) THEN c1
             ELSE create_task_each(c1, Tail(cbs))

\* MessageBroker.publish_message and _publish_to_channel: with the store the
\* message goes onto the wire, without it the callbacks subscribed in this
\* process are called one after the other and the call goes on when the
\* callback has ended (awaited: history, the callbacks whose end a call of
\* publish_message has waited for)
publish_message(receiver_id) ==
    /\ broker.ops > 0
    /\ LET channel == channel_of(broker, receiver_id)
       IN  broker' = IF broker.redis_client
                     THEN [broker EXCEPT !.ops = @ - 1,
                                         !.wire = Append(@, channel)]
                     ELSE LET r == await_each(broker.invoked, broker.subscribers[channel])
                          IN  [broker EXCEPT
                                  !.ops = @ - 1,
                                  !.invoked = r.invoked,
                                  !.awaited = @ \cup {cb \in Callbacks :
                                                r.invoked[cb] > broker.invoked[cb]},
                                  !.raised = IF r.raised THEN @ \cup {"publish_message"}
                                             ELSE @]
    /\ BrokerUnchanged

\* MessageBroker.start_listening: one message is taken from the pubsub
\* connection and a task is created for each callback of its channel
start_listening ==
    /\ broker.redis_client
    /\ broker.wire # <<>>
    /\ broker' = [broker EXCEPT
                    !.wire = Tail(@),
                    !.invoked = create_task_each(@, broker.subscribers[Head(broker.wire)])]
    /\ BrokerUnchanged

\* json.dumps(task, default=str): a value JSON does not know is written as
\* its str()
dumps(t) == <<"json", IF t = "dated" THEN "dated_as_str" ELSE t>>

\* json.loads
loads(data) == data[2]

\* MessageBroker.add_task_to_queue: with the store the serialised task is
\* pushed at the right end of the list queue:<name>; without it the method
\* only makes sure that subscribers has a key of the queue's name
add_task_to_queue(queue_name, t) ==
    /\ broker.ops > 0
    /\ broker' = [broker EXCEPT
                    !.ops = @ - 1,
                    !.store[queue_name] =
                        IF broker.redis_client THEN Append(@, dumps(t)) ELSE @,
                    !.subscribers =
                        IF broker.redis_client THEN @
                        ELSE [ch \in DOMAIN @ \cup {queue_name} |->
                                IF ch \in DOMAIN @ THEN @[ch] ELSE <<>>],
                    !.qlog = Append(@, [op |-> "push", queue |-> queue_name,
                                        value |-> t])]
    /\ BrokerUnchanged

\* MessageBroker.get_task_from_queue: with the store the left end of the
\* list is popped and parsed, None if the list is empty; without the store
\* the result is None
get_task_from_queue(queue_name) ==
    /\ broker.ops > 0
    /\ LET list == broker.store[queue_name]
           some == broker.redis_client /\ list # <<>>
       IN  broker' = [broker EXCEPT
                        !.ops = @ - 1,
                        !.store[queue_name] = IF some THEN Tail(list) ELSE @,
                        !.qlog = Append(@, [op |-> "pop", queue |-> queue_name,
                                            value |-> IF some THEN loads(Head(list))
                                                      ELSE None])]
    /\ BrokerUnchanged

\* MessageBroker.get_queue_length: llen with the store, 0 without
get_queue_length(B, queue_name) ==
    IF B.redis_client THEN Len(B.store[queue_name]) ELSE 0

\* MessageBroker.request_response.  Its first statement evaluates
\* uuid.uuid4(), and message_broker.py does not import uuid: the call ends
\* there with a NameError, before it subscribes, publishes or waits.
request_response(sender_id, receiver_id, timeout) ==
    [ended |-> TRUE, raised |-> "NameError", value |-> None,
     subscribed |-> FALSE, published |-> FALSE, waited |-> 0,
     channel |-> None, receiver |-> receiver_id, timeout |-> timeout]

\* a caller runs request_response; receiver_answers tells whether the
\* receiver is one that answers every request it is sent before the deadline
call_request_response(sender_id, receiver_id, timeout, receiver_answers) ==
    /\ broker.ops > 0
    /\ broker' = [broker EXCEPT
                    !.ops = @ - 1,
                    !.rr = Append(@, request_response(sender_id, receiver_id, timeout)
                                        @@ [receiver_answers |-> receiver_answers])]
    /\ BrokerUnchanged

(***************************************************************************)
(* Specifications.                                                         *)
(***************************************************************************)
\* the task submitted in the retry scenarios; "B" is only named, as a
\* dependency or in a report for an id the Coordinator does not know
RetryTasks == {"A"}

ReportTasks == {"A", "B"}

\* the agent whose reports and registrations vary in the health scenarios
HealthAgents == {"dev-001"}

\* the inputs of a submission: a Task is created pending or blocked, with
\* dependencies among the other ids of T
SubmitInputs(T, t) ==
    {<<st, ds>> \in {"pending", "blocked"} \X SUBSET (T \ {t}) :
        st = "blocked" => ds # {}}

\* the Coordinator's task bookkeeping with the agents executing assignments
Next ==
    \/ \E t \in RetryTasks : \E in \in SubmitInputs(ReportTasks, t) :
            SubmitTask(t, in[1], in[2])
    \/ \E t \in RetryTasks : \E ds \in SUBSET (ReportTasks \ {t}) : HoldBlockedTask(t, ds)
    \/ \E t \in ReportTasks : \E r \in Results : handle_task_completed(t, r)
    \/ \E t \in ReportTasks : handle_task_failed(t)
    \/ \E c \in coros : resume_attempt_task_recovery(c)
    \/ process_task_queue
    \/ \E i \in DOMAIN inst : process_messages(i)
    \/ \E c \in calls : \E o \in {"returned", "raised"} :
            \E s1, s2 \in SendOutcomes : finish_start_task(c, o, s1, s2)

Spec == Init /\ [][Next]_vars

\* dependency gating: tasks are submitted or held, completions are reported
DepNext ==
    \/ \E t \in {"A", "B"} : SubmitTask(t, "pending", {})
    \/ HoldBlockedTask("D", {"A", "B"})
    \/ HoldBlockedTask("B", {"A"})
    \/ \E t \in Tasks : handle_task_completed(t, "r1")
    \/ \E c \in coros : resume_check_for_dependent_tasks(c)
    \/ process_task_queue
    \/ \E i \in DOMAIN inst : process_messages(i)
    \/ \E c \in calls : finish_start_task(c, "returned", "sent", "sent")

DepSpec == Init /\ [][DepNext]_vars

\* the agents have been spawned; the start() of the first has run, those of
\* the others are still scheduled
AgentInit ==
    /\ InitCommon
    /\ inst = [i \in 1..Len(AgentOrder) |->
                    IF i = 1 THEN StartedAgent(AgentOrder[i]) ELSE NewAgent(AgentOrder[i])]
    /\ last_call = NoCall
    /\ broker = CoordBroker(FALSE)

\* the agent runtime: assignments from the mailbox, direct dispatch, status
\* updates and shutdown
AgentNext ==
    \/ \E t \in RetryTasks : SubmitTask(t, "pending", {})
    \/ process_task_queue
    \/ process_task_queue_exit
    \/ \E i \in DOMAIN inst : start(i)
    \/ \E i \in DOMAIN inst : process_messages_enter(i)
    \/ \E i \in DOMAIN inst : process_messages(i)
    \/ \E i \in DOMAIN inst : process_messages_exit(i)
    \/ \E c \in calls : \E o \in {"returned", "raised"} :
            \E s1, s2 \in SendOutcomes : finish_start_task(c, o, s1, s2)
    \/ orchestrator_stop
    \/ \E a \in {"dev-001"} : \E st \in AgentState : handle_status_update(a, st)
    \/ \E a \in {"dev-002"} : \E cap \in {"code_review", "testing"} :
            \E rr \in BOOLEAN : handle_assistance_request(a, cap, rr)

AgentSpec == AgentInit /\ [][AgentNext]_vars

\* end to end: tasks are submitted to the running system and the agents
\* execute them; the Coordinator handles what reaches its channel
E2EInit ==
    /\ InitCommon
    /\ inst = [i \in 1..Len(AgentOrder) |-> StartedAgent(AgentOrder[i])]
    /\ last_call = NoCall
    /\ broker = CoordBroker(FALSE)

E2ENext ==
    \/ \E t \in Tasks : SubmitTask(t, "pending", {})
    \/ process_task_queue
    \/ \E i \in DOMAIN inst : process_messages(i)
    \/ \E c \in calls : \E o \in {"returned", "raised"} :
            finish_start_task(c, o, "sent", "sent")

E2ESpec == E2EInit /\ [][E2ENext]_vars

\* shutdown: the Coordinator is stopped while tasks are executed, retried
\* and queued
StopNext ==
    \/ \E t \in RetryTasks : SubmitTask(t, "pending", {})
    \/ \E t \in RetryTasks : handle_task_failed(t)
    \/ \E c \in coros : resume_attempt_task_recovery(c)
    \/ process_task_queue
    \/ process_task_queue_exit
    \/ \E i \in DOMAIN inst : process_messages(i)
    \/ \E i \in DOMAIN inst : process_messages_exit(i)
    \/ \E c \in calls : \E o \in {"returned", "raised"} :
            finish_start_task(c, o, "sent", "sent")
    \/ orchestrator_stop

StopSpec == Init /\ [][StopNext]_vars

\* who asks for assistance in the mailbox scenarios, and for what
AssistRequesters == {"pm-001", "dev-001"}

AssistCapabilities == {"code_review", "project_management", "testing"}

\* the mailboxes: assignments arrive while the agents execute tasks, wait
\* for responses and are dispatched assistance tasks directly
MailNext ==
    \/ \E t \in Tasks : SubmitTask(t, "pending", {})
    \/ process_task_queue
    \/ \E i \in DOMAIN inst : process_messages(i)
    \/ \E c \in calls : \E o \in {"returned", "raised"} :
            finish_start_task(c, o, "sent", "sent")
    \/ \E c \in calls : wait_for_response(c)
    \/ \E c \in calls : request_assistance_return(c)
    \/ \E a \in AssistRequesters : \E cap \in AssistCapabilities :
            \E rr \in BOOLEAN : handle_assistance_request(a, cap, rr)

MailSpec == Init /\ [][MailNext]_vars

\* health monitoring: the agents work, report their state, leave the online
\* set or fall silent, and the monitor runs its cycles; with and without the
\* durable store
HealthInit ==
    /\ InitCommon
    /\ inst = [i \in 1..Len(AgentOrder) |-> StartedAgent(AgentOrder[i])]
    /\ last_call = NotRecorded
    /\ \E r \in BOOLEAN : broker = [CoordBroker(r) EXCEPT !.ops = MaxStoreOps]

HealthNext ==
    \/ monitor_agent_health
    \/ monitor_agent_health_resume
    \/ \E a \in HealthAgents : unregister_agent(a)
    \/ \E a \in HealthAgents : register_agent(a, "agent_" \o a)
    \/ \E a \in HealthAgents : agent_goes_silent(a)
    \/ \E a \in HealthAgents : \E st \in AgentState :
            a \notin broker.silent /\ handle_status_update(a, st)
    \/ \E t \in ReportTasks : SubmitTask(t, "pending", {})
    \/ process_task_queue
    \/ \E i \in DOMAIN inst : start(i)
    \/ \E i \in DOMAIN inst : process_messages_enter(i)
    \/ \E i \in DOMAIN inst : process_messages(i)
    \/ \E c \in calls : finish_start_task(c, "returned", "sent", "sent")

HealthSpec == HealthInit /\ [][HealthNext]_vars

\* the Transport, with and without the durable store
BrokerInit ==
    /\ InitCommon
    /\ inst = [i \in 1..Len(AgentOrder) |-> StartedAgent(AgentOrder[i])]
    /\ last_call = NotRecorded
    /\ \E r \in BOOLEAN : broker = NewBroker(r)

BrokerNext ==
    \/ \E a \in {"dev-001", "orchestrator"} : \E ch \in {"agent_dev-001", "orchestrator"} :
            register_agent(a, ch)
    \/ \E a \in {"dev-001", "orchestrator"} : unregister_agent(a)
    \/ \E ch \in Channels : \E cb \in Callbacks : subscribe_to_channel(ch, cb)
    \/ \E r \in {"dev-001", "orchestrator", None} : publish_message(r)
    \/ start_listening
    \/ \E r \in {"dev-001", "orchestrator"} : \E timeout \in {1, 30} :
            \E answers \in BOOLEAN : call_request_response("dev-002", r, timeout, answers)

BrokerSpec == BrokerInit /\ [][BrokerNext]_vars

\* broadcasts: messages without receiver are published on the Coordinator's
\* broker while agents are restarted and read their mailboxes
BroadcastNext ==
    \/ \E s \in {"system", "dev-001"} : publish_broadcast(s)
    \/ \E a \in HealthAgents : \E st \in AgentState : handle_status_update(a, st)
    \/ monitor_agent_health
    \/ monitor_agent_health_resume
    \/ \E i \in DOMAIN inst : start(i)
    \/ \E i \in DOMAIN inst : process_messages_enter(i)
    \/ \E i \in DOMAIN inst : process_messages(i)

BroadcastSpec == HealthInit /\ [][BroadcastNext]_vars

\* recruitment: assistance is requested under a configuration with
\* auto_recruit while the agents take and execute assignments
RecruitNext ==
    \/ \E t \in ReportTasks : SubmitTask(t, "pending", {})
    \/ process_task_queue
    \/ \E i \in DOMAIN inst : start(i)
    \/ \E i \in DOMAIN inst : process_messages_enter(i)
    \/ \E i \in DOMAIN inst : process_messages(i)
    \/ \E c \in calls : finish_start_task(c, "returned", "sent", "sent")
    \/ \E a \in AssistRequesters : \E cap \in AssistCapabilities :
            \E rr \in BOOLEAN : handle_assistance_request_auto_recruit(a, cap, rr)

RecruitSpec == Init /\ [][RecruitNext]_vars

\* retries on the clock: one task fails again and again, its reports may be
\* duplicated, and the backoff delays run down with the time
ClockNext ==
    \/ SubmitTask("A", "pending", {})
    \/ handle_task_failed("A")
    \/ asyncio_sleep_elapse
    \/ \E c \in coros : wake_attempt_task_recovery(c)
    \/ process_task_queue
    \/ \E i \in DOMAIN inst : process_messages(i)
    \/ \E c \in calls : finish_start_task(c, "raised", "sent", "sent")

ClockSpec == Init /\ [][ClockNext]_vars

\* the named work queues of the Transport, with and without the durable
\* store
QueueNext ==
    \/ \E q \in QueueNames : \E t \in QueueTasks : add_task_to_queue(q, t)
    \/ \E q \in QueueNames : get_task_from_queue(q)

QueueSpec == BrokerInit /\ [][QueueNext]_vars

(***************************************************************************)
(* Properties.                                                             *)
(***************************************************************************)
\* number of times x occurs in the sequence s
Occurrences(s, x) == Cardinality({k \in DOMAIN s : s[k] = x})

\* C1: a task that handle_task_completed has moved to the completed set
\* keeps the status `completed` and stays out of pending_tasks, whatever
\* reports, backoff expirations and queue turns follow.
C1_CompletedIsFinal ==
    [][\A t \in Tasks :
          task[t].status = "completed"
              => task'[t].status = "completed" /\ t \notin Range(pending_tasks')]_vars

\* C2: for a task whose every assignment is answered by one task_failed
\* report, the status is `escalated` once three failure reports have been
\* handled, and at most three task_assignment messages are ever published.
C2_ThreeFailuresThenEscalated ==
    \A t \in Tasks :
        handled[t].only_answers
            => /\ handled[t].task_failed >= 3 => task[t].status = "escalated"
               /\ published[t].task_assignment <= 3

\* C3: of the task_completed reports for one task id exactly one is
\* accepted: once the task is in completed_tasks no later step appends it
\* again, changes its stored result or its status, or puts it back into the
\* pending set, and the metric counts it once.
C3_OneCompletionAccepted ==
    [][\A t \in Tasks :
          t \in Range(completed_tasks)
              => /\ Occurrences(completed_tasks', t) = 1
                 /\ task'[t].result = task[t].result
                 /\ metrics'.tasks_completed = metrics.tasks_completed
                        \/ \E u \in Tasks \ {t} :
                              Occurrences(completed_tasks', u)
                                  # Occurrences(completed_tasks, u)]_vars

\* d was handed to assign_task_to_agent in this step: an assignment was
\* published for it or it was appended to the deferred queue
Submitted(d) ==
    \/ published'[d].task_assignment = published[d].task_assignment + 1
    \/ Occurrences(task_queue', d) = Occurrences(task_queue, d) + 1

C5_UnmetDependenciesNotAssigned ==
    \A t \in Tasks :
        task[t].deps # {}
            => task[t].status # "assigned" /\ published[t].task_assignment = 0

\* C6: every finished start_task has sent exactly one report, task_completed
\* if and only if execute_task returned and task_failed if and only if it
\* raised.
C6_ExactlyOneMatchingReport ==
    last_call.task # None
        => /\ Len(last_call.reports) = 1
           /\ last_call.reports[1] = "task_completed" <=> last_call.outcome = "returned"
           /\ last_call.reports[1] = "task_failed" <=> last_call.outcome = "raised"

\* C7: when a call of start_task ends, normally or by an exception, the task
\* has been appended to task_history once, current_task is None and the
\* state is IDLE.
C7_CleanupOnEveryExit ==
    [][\A c \in calls :
          c \notin calls'
              => /\ inst'[c.inst].task_history = Append(inst[c.inst].task_history, c.task)
                 /\ inst'[c.inst].current_task = None
                 /\ inst'[c.inst].state = "idle"]_vars

\* C7 witness: a call has ended by an exception (the executor raised and the
\* task_failed report could not be sent) and the agent is clean
C7_Witness ==
    /\ last_call.task # None
    /\ last_call.outcome = "raised"
    /\ last_call.reports = <<>>
    /\ inst[last_call.inst].state = "idle"
    /\ inst[last_call.inst].current_task = None
    /\ Len(inst[last_call.inst].task_history) = 1

\* C8: every registered agent that is neither ERROR nor OFFLINE is WORKING
\* exactly when it has a current task and IDLE otherwise, and executes at
\* most one task at a time.
C8_WorkingIffCurrentTask ==
    \A a \in DOMAIN agents :
        LET r == inst[agents[a]]
        IN  r.state \notin {"error", "offline"}
                => /\ r.state \in {"idle", "working"}
                   /\ r.state = "working" <=> r.current_task # None
                   /\ Cardinality({c \in calls : c.inst = agents[a]}) <= 1

\* C9: once stop() has set an instance OFFLINE, no later step changes the
\* state of that instance.
C9_OfflineIsTerminal ==
    [][\A i \in DOMAIN inst :
          (~running /\ ~inst[i].running /\ inst[i].state = "offline")
              => inst'[i].state = "offline"]_vars

\* C10: a request_response against a receiver that never replies ends by
\* returning None.
C10_TimeoutReturnsNone ==
    \A k \in DOMAIN broker.rr :
        (broker.rr[k].ended /\ ~broker.rr[k].receiver_answers)
            => broker.rr[k].raised = None /\ broker.rr[k].value = None

C12_ReplyIsReturned ==
    \A k \in DOMAIN broker.rr :
        (broker.rr[k].ended /\ broker.rr[k].receiver_answers)
            => broker.rr[k].raised = None /\ broker.rr[k].value = "reply"

\* C13: in every step that publishes a task_assignment for a task, the
\* receiver is the first agent of the pool of the task's capability that was
\* IDLE when the step began, the message has been put into that agent's
\* mailbox, and the task has that agent as assignee, the status `assigned` and is in
\* pending_tasks.
C13_AssignmentToFirstIdle ==
    [][\A t \in Tasks :
          published'[t].task_assignment # published[t].task_assignment
              => LET a == task'[t].assignee
                     pool == agent_pool[role_to_capability(task'[t].role)]
                 IN  /\ \E k \in 1..Len(pool) :
                            /\ pool[k] = a
                            /\ inst[agents[a]].state = "idle"
                            /\ \A j \in 1..(k - 1) : inst[agents[pool[j]]].state # "idle"
                     /\ LET q == inst'[agents[a]].message_queue
                        IN  /\ Len(q) > Len(inst[agents[a]].message_queue)
                            /\ q[Len(q)] = [type |-> "task_assignment", task |-> t]
                     /\ published'[t].task_assignment = published[t].task_assignment + 1
                     /\ task'[t].status = "assigned"
                     /\ t \in Range(pending_tasks')]_vars

\* C13 witness: the first agent of the pool was not IDLE and the assignment
\* went to the second
C13_Witness ==
    /\ task["A"].status = "assigned"
    /\ task["A"].assignee = "dev-002"
    /\ "A" \in Range(pending_tasks)
    /\ \E k \in DOMAIN inst[agents["dev-002"]].message_queue :
            inst[agents["dev-002"]].message_queue[k] = [type |-> "task_assignment", task |-> "A"]

\* no agent of the pool of t's capability is IDLE
NoIdleAgentFor(t) ==
    \A a \in Range(agent_pool[role_to_capability("developer")]) :
        inst[agents[a]].state # "idle"

\* C14: a call of assign_task_to_agent that finds no IDLE agent (made by a
\* submission, by the retry after its backoff, or by the queue loop for the
\* task it has taken) appends the task to the deferred queue once and changes
\* nothing else: no message is published, and the status, the assignee, the
\* pending and the completed set and the agents are as before.
C14_NoIdleAgentDefers ==
    [][\A t \in Tasks :
          NoIdleAgentFor(t)
              => /\ (\E c \in coros : c.task = t /\ resume_attempt_task_recovery(c))
                        => /\ task_queue' = Append(task_queue, t)
                           /\ task' = task
                           /\ UNCHANGED <<pending_tasks, completed_tasks, published,
                                          inst, metrics>>
                 /\ (task_queue # <<>> /\ Head(task_queue) = t /\ process_task_queue)
                        => /\ task_queue' = Append(Tail(task_queue), t)
                           /\ task' = task
                           /\ UNCHANGED <<pending_tasks, completed_tasks, published,
                                          inst, metrics>>
                 /\ (\E st \in {"pending", "blocked"} : \E ds \in SUBSET Tasks :
                            SubmitTask(t, st, ds))
                        => /\ task_queue' = Append(task_queue, t)
                           /\ task'[t].status \in {"pending", "blocked"}
                           /\ task'[t].assignee = None
                           /\ \A u \in Tasks \ {t} : task'[u] = task[u]
                           /\ UNCHANGED <<pending_tasks, completed_tasks, published,
                                          inst, metrics>>]_vars

\* C14 witness: a retried task waits in the deferred queue while both
\* developers are busy, with the status the failure handling gave it
C14_Witness ==
    /\ task_queue = <<"A">>
    /\ task["A"].status = "pending"
    /\ task["A"].retry = 2
    /\ published["A"].task_assignment = 2
    /\ NoIdleAgentFor("A")

\* nothing is in flight: no call executes, no handler is suspended, the
\* deferred queue and the mailboxes are empty
Quiescent ==
    /\ calls = {}
    /\ coros = {}
    /\ task_queue = <<>>
    /\ \A i \in DOMAIN inst : inst[i].message_queue = <<>>

\* C15: once the executor of a submitted task has returned and the agent has
\* sent its task_completed report, and everything in flight has been
\* handled, the task is in completed_tasks and not in pending_tasks.
C15_CompletionReachesCoordinator ==
    \A t \in Tasks :
        (/\ last_call.task = t
         /\ last_call.outcome = "returned"
         /\ last_call.reports = <<"task_completed">>
         /\ Quiescent)
            => t \in Range(completed_tasks) /\ t \notin Range(pending_tasks)

\* C16: a task for which an escalation has been published has exactly one
\* task_escalation message, has the status `escalated`, and no step publishes
\* a task_assignment for it any more.
C16_EscalatedExactlyOnce ==
    [][\A t \in Tasks :
          /\ published'[t].task_escalation <= 1
          /\ published'[t].task_escalation >= 1 => task'[t].status = "escalated"
          /\ published[t].task_escalation >= 1
                => published'[t].task_assignment = published[t].task_assignment]_vars

\* C17: once stop() has run, a retry whose backoff expires assigns nothing:
\* the step in which attempt_task_recovery resumes publishes no
\* task_assignment and moves no task to `assigned`.
C17_NoRetryAfterStop ==
    [][(~running /\ \E c \in coros : resume_attempt_task_recovery(c))
          => /\ published' = published
             /\ \A t \in Tasks :
                    task'[t].status = "assigned" => task[t].status = "assigned"]_vars

\* C18: once stop() has set running to false no new work is accepted: no
\* step, of the queue loop or of any other handler, publishes a
\* task_assignment.
C18_NoAssignmentAfterStop ==
    [][~running
          => \A t \in Tasks :
                published'[t].task_assignment = published[t].task_assignment]_vars

\* a is in the online set the Transport reports
Online(a) ==
    IF broker.redis_client
    THEN a \in DOMAIN broker.status /\ broker.status[a] = "online"
    ELSE a \in DOMAIN broker.agent_channels

\* C19: in a cycle of monitor_agent_health every registered agent that is
\* not in the online set and not OFFLINE is set OFFLINE, and every registered
\* agent that is in the online set and not in ERROR stays registered with
\* its instance unchanged.
C19_HealthCycleMarksAbsentOnly ==
    [][monitor_agent_health
          => \A a \in DOMAIN agents :
                LET i == agents[a]
                IN  /\ (~Online(a) /\ inst[i].state # "offline")
                        => agents'[a] = i /\ inst'[i].state = "offline"
                    /\ (Online(a) /\ inst[i].state # "error")
                        => agents'[a] = i /\ inst'[i] = inst[i]]_vars

\* C19 witness: the monitor has set OFFLINE an agent that left the online
\* set while it was running and executing a task
C19_Witness ==
    /\ running
    /\ ~Online("dev-001")
    /\ inst[agents["dev-001"]].state = "offline"
    /\ inst[agents["dev-001"]].running
    /\ inst[agents["dev-001"]].current_task # None

\* C20: a cycle of monitor_agent_health of the running Coordinator leaves
\* OFFLINE every registered agent that has stopped sending heartbeats and
\* online status.
C20_SilentAgentMarkedOffline ==
    [][(running /\ monitor_agent_health)
          => \A a \in DOMAIN agents :
                a \in broker.silent => inst'[agents'[a]].state = "offline"]_vars

\* the agents the second loop of monitor_agent_health finds in ERROR in this
\* step, looking at todo in order: all of them without the store, the first
\* of them with it (the loop is suspended in its restart)
SeenInError(todo, failed) ==
    LET idx == {k \in 1..Len(todo) : todo[k] \in failed}
    IN  IF idx = {} THEN {}
        ELSE IF broker.redis_client
             THEN {todo[CHOOSE k \in idx : \A m \in idx : k <= m]}
             ELSE {todo[k] : k \in idx}

\* in this step the instance registered under a is stopped and the registry
\* gets a new IDLE instance of the same class under the same id
Replaced(a) ==
    LET i == agents[a]
        j == agents'[a]
    IN  /\ j \notin DOMAIN inst
        /\ j \in DOMAIN inst'
        /\ inst'[i].state = "offline"
        /\ ~inst'[i].running
        /\ inst'[j].id = a
        /\ inst'[j].cls = inst[i].cls
        /\ inst'[j].state = "idle"

\* C21: an agent that the second loop of monitor_agent_health finds in ERROR
\* is replaced in that step of the cycle: its instance is stopped (OFFLINE,
\* not running) and the registry holds under the same id a new instance of
\* the same class whose state is IDLE.
C21_ErrorAgentReplaced ==
    /\ [][monitor_agent_health
            => \A a \in SeenInError(AgentOrder,
                        {x \in DOMAIN agents :
                            Online(x) /\ inst[agents[x]].state = "error"}) :
                    Replaced(a)]_vars
    /\ [][monitor_agent_health_resume
            => \A a \in SeenInError(hloop.todo,
                        {x \in DOMAIN agents :
                            inst[agents[x]].state = "error"}) :
                    Replaced(a)]_vars

\* C21 witness: dev-001 has been restarted: its first instance is stopped
\* and a later instance, IDLE, is registered under its id
C21_Witness ==
    /\ agents["dev-001"] > Len(AgentOrder)
    /\ inst[2].state = "offline"
    /\ ~inst[2].running
    /\ inst[agents["dev-001"]].state = "idle"
    /\ inst[agents["dev-001"]].cls = inst[2].cls

\* C22: when a step replaces the instance registered under an agent id, no
\* task of the pending set is afterwards `assigned` to that agent.
C22_NoAssignedTaskAfterRestart ==
    [][\A a \in DOMAIN agents :
          agents'[a] # agents[a]
            => \A k \in 1..Len(pending_tasks') :
                  ~(/\ task'[pending_tasks'[k]].status = "assigned"
                    /\ task'[pending_tasks'[k]].assignee = a)]_vars

\* task x was assigned, and its assignment published, before that of task y
ArrivedBefore(x, y) ==
    \E k, m \in 1..Len(pending_tasks) :
        k < m /\ pending_tasks[k] = x /\ pending_tasks[m] = y

\* C23: an agent handles its messages in arrival order and one at a time:
\* the assignment process_messages takes from the mailbox arrived before
\* every assignment that stays in it, and no agent has two start_task calls
\* in progress, whether they came from its mailbox or from the Coordinator's
\* direct dispatch.
C23_InOrderOneAtATime ==
    /\ [][\A i \in DOMAIN inst :
            process_messages(i)
              => \A k \in 2..Len(inst[i].message_queue) :
                    ArrivedBefore(Head(inst[i].message_queue).task,
                                  inst[i].message_queue[k].task)]_vars
    /\ [](\A c1, c2 \in calls : c1.inst = c2.inst => c1 = c2)

\* C24: in degraded mode (redis_client is None) every publish_message
\* invokes each callback subscribed on the target channel, once per
\* subscription, and does not raise.
C24_DegradedModeDelivers ==
    [][\A r \in {"dev-001", "orchestrator", None} :
          (~broker.redis_client /\ publish_message(r))
            => /\ \A cb \in Callbacks :
                    broker'.invoked[cb] = broker.invoked[cb]
                        + Occurrences(broker.subscribers[channel_of(broker, r)], cb)
               /\ broker'.raised = broker.raised]_vars

\* the events of the log that are pushes, and those that are pops that
\* returned a task
Pushes(log) == SelectSeq(log, LAMBDA e : e.op = "push")

Pops(log) == SelectSeq(log, LAMBDA e : e.op = "pop" /\ e.value # None)

\* C25: in both modes every pop returns the oldest pushed task that has not
\* been popped yet, in its serialised form, and None if there is none; and
\* get_queue_length is the number of pushes minus the number of pops that
\* returned a task.
C25_QueueIsFifo ==
    /\ \A k \in DOMAIN broker.qlog :
          broker.qlog[k].op = "pop"
            => LET before == SubSeq(broker.qlog, 1, k - 1)
                   n == Len(Pops(before))
               IN  broker.qlog[k].value =
                        IF n < Len(Pushes(before))
                        THEN loads(dumps(Pushes(before)[n + 1].value))
                        ELSE None
    /\ \A q \in QueueNames :
          get_queue_length(broker, q)
              = Len(Pushes(broker.qlog)) - Len(Pops(broker.qlog))

\* C26: a step that publishes a message without receiver puts it exactly
\* once into the mailbox of every registered agent other than the sender and
\* not into the sender's.
C26_BroadcastOncePerAgent ==
    [][\A s \in {"system", "dev-001"} :
          publish_broadcast(s)
            => \A a \in DOMAIN agents :
                  inst'[agents[a]].message_queue =
                      IF a = s THEN inst[agents[a]].message_queue
                      ELSE Append(inst[agents[a]].message_queue, BroadcastMessage)]_vars

\* the assistance_response of a finished assistance task
ResponseOf(c) ==
    [type |-> "assistance_response", task |-> c.task, status |-> "success",
     helper_agent |-> inst[c.inst].id, correlation_id |-> RequestCorrelationId]

\* C27: handle_assistance_request starts the assistance task only on a
\* registered agent that is not the requester, has the requested capability
\* and was IDLE when it was selected; and an assistance_response is published
\* exactly when an assistance task whose request demanded a response has
\* finished: one message, put into the requester's mailbox, with the helper's
\* id and the request's correlation id.
C27_AssistanceDispatchAndResponse ==
    /\ [][\A a \in AssistRequesters : \A cap \in AssistCapabilities :
            \A rr \in BOOLEAN :
              handle_assistance_request(a, cap, rr)
                => \A c \in calls' \ calls :
                      /\ c.via = "direct" /\ c.requester = a /\ c.respond = rr
                      /\ \E h \in DOMAIN agents : agents[h] = c.inst /\ h # a
                      /\ cap \in Range(ClassCapabilities[inst[c.inst].cls])
                      /\ inst[c.inst].state = "idle"]_vars
    /\ [][\A c \in calls \ calls' :
            (c.via = "direct" /\ c.respond)
              => /\ published'[AssistTask].assistance_response
                        = published[AssistTask].assistance_response + 1
                 /\ inst'[agents[c.requester]].message_queue
                        = Append(inst[agents[c.requester]].message_queue,
                                 ResponseOf(c))]_vars
    /\ [][published'[AssistTask].assistance_response
                # published[AssistTask].assistance_response
            => \E c \in calls \ calls' : c.via = "direct" /\ c.respond]_vars

\* C27 witness: dev-001 asked for a capability it holds itself; dev-002 has
\* finished the assistance task and the one response is in dev-001's mailbox
C27_Witness ==
    /\ published[AssistTask].assistance_response = 1
    /\ AssistTask \in Range(inst[agents["dev-002"]].task_history)
    /\ \E k \in DOMAIN inst[agents["dev-001"]].message_queue :
          LET m == inst[agents["dev-001"]].message_queue[k]
          IN  m.type = "assistance_response" /\ m.helper_agent = "dev-002"

\* C28: when handle_assistance_request, with auto-recruitment enabled, finds
\* no idle capable helper, it spawns an agent of the class mapped from the
\* capability and starts the assistance task of this request on it.
C28_RecruitThenDispatch ==
    [][\A a \in AssistRequesters : \A cap \in AssistCapabilities :
          \A rr \in BOOLEAN :
            (/\ handle_assistance_request_auto_recruit(a, cap, rr)
             /\ find_agent_with_capability(inst, cap, a) = None)
              => \E new \in DOMAIN agents' \ DOMAIN agents :
                    /\ inst'[agents'[new]].cls = agent_class_map(cap)
                    /\ \E c \in calls' \ calls :
                          /\ c.inst = agents'[new]
                          /\ c.via = "direct"
                          /\ c.requester = a]_vars

\* the result of the helper's execute_task
HelperResult == "r1"

\* C29: when request_assistance returns, its value is the helper's result
\* if the Coordinator's assistance_response for the caller is in the caller's
\* mailbox (a helper was found and the answer came before the timeout), and
\* None if there is none.
C29_AssistanceResult ==
    [][\A c \in calls :
          request_assistance_return(c)
            => inst'[c.inst].assisted =
                  IF \E k \in DOMAIN inst[c.inst].message_queue :
                        inst[c.inst].message_queue[k].type = "assistance_response"
                  THEN HelperResult
                  ELSE None]_vars

\* in this step every callback subscribed on channel ch is invoked once for
\* each of its subscriptions
InvokedOnce(ch) ==
    \A cb \in Callbacks :
        broker'.invoked[cb] = broker.invoked[cb] + Occurrences(broker.subscribers[ch], cb)

\* C30: every delivery of a message on a channel, by publish_message without
\* the store and by the listener with it, invokes each callback subscribed
\* on the channel exactly once, whatever the order of the subscriptions and
\* whether or not a callback fails.
C30_EveryCallbackInvokedOnce ==
    /\ [][\A r \in {"dev-001", "orchestrator", None} :
            (~broker.redis_client /\ publish_message(r))
              => InvokedOnce(channel_of(broker, r))]_vars
    /\ [][start_listening => InvokedOnce(Head(broker.wire))]_vars

\* C31: no call of publish_message waits for the end of a subscriber
\* callback.
C31_PublishNeverWaits ==
    broker.awaited = {}

\* C32: a message published for the receiver `orchestrator` goes to the
\* channel `orchestrator`: with the store it is put on the wire for that
\* channel, without it every callback subscribed on that channel is invoked.
C32_ControlMessagesOnOrchestratorChannel ==
    [][publish_message("orchestrator")
          => IF broker.redis_client
             THEN broker'.wire = Append(broker.wire, "orchestrator")
             ELSE \A cb \in Range(broker.subscribers["orchestrator"]) :
                      broker'.invoked[cb] > broker.invoked[cb]]_vars

\* C33: a task_completed report whose task id is not in pending_tasks
\* removes no dependency edge and takes no task out of `blocked`.
C33_UnacceptedCompletionReleasesNothing ==
    [][\A id \in Tasks :
          (handle_task_completed(id, "r1") /\ id \notin Range(pending_tasks))
              => \A d \in Tasks :
                     /\ task'[d].deps = task[d].deps
                     /\ task[d].status = "blocked" => task'[d].status = "blocked"]_vars

\* the retry whose report started the delay c is handed to
\* assign_task_to_agent no earlier than 5 * k time units after the report
C34_DelayAtLeastFiveK ==
    [][\A c \in coros :
          wake_attempt_task_recovery(c) => c.elapsed >= 5 * c.attempt]_vars

\* a task whose retry is in its backoff delay has status `pending`
C34_PendingDuringDelay ==
    \A c \in coros : c.kind = "backoff" => task[c.task].status = "pending"

\* C34: the k-th retry of a task (k = 1, 2, 3) is re-submitted to
\* assign_task_to_agent no earlier than 5 * k time units after its failure
\* report was handled, and the task has status `pending` during that delay.
C34_LinearBackoff ==
    C34_DelayAtLeastFiveK /\ []C34_PendingDuringDelay

\* C35: the tasks_completed metric equals the number of entries of
\* completed_tasks in every reachable state.
C35_MetricCountsCompletedTasks ==
    metrics.tasks_completed = Len(completed_tasks)

\* a completion and a failure have been accepted and at least one report
\* (a duplicate, or one for an id not in pending_tasks) has been ignored
C35_Witness ==
    /\ Len(completed_tasks) >= 1
    /\ metrics.tasks_failed >= 1
    /\ MaxReports - budget.reports > metrics.tasks_completed + metrics.tasks_failed

\* C36: the retry counter of every task is between 0 and 3 in every
\* reachable state, also while several failure reports for one task are in
\* their backoff delays.
C36_RetryCounterBounded ==
    \A t \in Tasks : task[t].retry \in 0..3

\* a failure report has been handled at the ceiling while the delays of two
\* earlier reports for the same task were still running
C36_Witness ==
    /\ task["A"].retry = 3
    /\ metrics.tasks_failed >= 4
    /\ Cardinality({c \in coros : c.kind = "backoff" /\ c.task = "A"
                                  /\ c.elapsed < c.delay}) >= 2

\* C37: every registered agent id appears at most once in the pool of each
\* capability and has exactly one routing callback subscribed on its
\* channel.
C37_OnePoolEntryOneSubscription ==
    \A a \in DOMAIN agents :
        /\ \A cap \in DOMAIN agent_pool : Occurrences(agent_pool[cap], a) <= 1
        /\ broker.routes[a] = 1

\* the retries of task t that are in progress: the runs of
\* attempt_task_recovery between their increment and their assignment
RetriesInProgress(t) ==
    {c \in coros : c.kind = "backoff" /\ c.task = t}

\* C38: at most one retry is in progress for a task at any time, and a task
\* that a retry has assigned again has no other retry left that would
\* assign it once more.
C38_OneRetryAtATime ==
    \A t \in Tasks :
        /\ Cardinality(RetriesInProgress(t)) <= 1
        /\ task[t].status = "assigned" => RetriesInProgress(t) = {}

\* C39: no agent is the assignee of two tasks of the pending set that have
\* status `assigned`.
C39_OneOutstandingAssignmentPerAgent ==
    \A t, u \in Range(pending_tasks) :
        (/\ t # u
         /\ task[t].status = "assigned"
         /\ task[u].status = "assigned") => task[t].assignee # task[u].assignee

\* C40: once Orchestrator.stop() has run, every agent of the registry is
\* stopped: its running flag is false and its state is OFFLINE, in every
\* later state.
C40_StoppedStaysStopped ==
    ~running => \A a \in DOMAIN agents :
                    /\ ~inst[agents[a]].running
                    /\ inst[agents[a]].state = "offline"

=============================================================================
